---- MODULE Spec2Model ----
(***************************************************************************)
(* LibreTuner-rs: the application context (src/src/app.rs), its error      *)
(* taxonomy (src/src/error.rs) and the command registry and dispatcher     *)
(* with the built-in commands (src/src/cli.rs).                            *)
(*                                                                         *)
(* Conventions                                                             *)
(*  - Option<T> is a sequence of length <= 1: <<>> is None, <<x>> Some(x). *)
(*  - Result<T> is a record whose field res is "Ok" or the name of the     *)
(*    Error variant (error.rs:5-18); "panic" is an unwrap() on an Err.     *)
(*  - Vec indices are 0-based as in the source: v[i] is written v[i + 1].  *)
(*  - The collaborators of the tuneutils crate and of clap are driven by   *)
(*    an environment record env that names the collaborator faults of the  *)
(*    call (the steps that fail if they are reached) and the bytes a       *)
(*    download yields.                                                     *)
(***************************************************************************)
EXTENDS Naturals, Sequences, FiniteSets, TLC

VARIABLES
    app,        \* App: avail_links, definitions, roms, tunes   (app.rs:17-24)
    disk,       \* the data directory: rom_meta, rom_images, tune_index
    commands,   \* Cli.commands                                  (cli.rs:59)
    live,       \* number of Live Links that are open
    held,       \* links the library caller owns (returned to it by App)
    aborted,    \* the process was ended by a panic
    last        \* the most recent call: its arguments and what it did

vars == <<app, disk, commands, live, held, aborted, last>>

----------------------------------------------------------------------------
(* Bounds of the model *)

MaxLinks == 2
MaxRoms == 2
MaxTunes == 1
MaxExtra == 2
MaxHeld == 1

----------------------------------------------------------------------------
(* The platform definition catalog and the data of the model *)

Platform1 ==
    [id |-> "P1", name |-> "Platform One",
     models |-> << [name |-> "M1", sig |-> "d1"], [name |-> "M2", sig |-> "d2"] >>]

LoadedDefinitions == << Platform1 >>

PlatformTokens == {"P1", "PX"}
RomIds == {"r1", "r2"}
TuneIds == {"t1"}
Names == {"N"}
Data == {"d1", "d2", "junk"}

DiscoveredLinks == << [typename |-> "SocketCAN", interface |-> "can0"] >>

feature_socketcan == TRUE

Faults ==
    {"none", "create", "no_downloader", "download", "save_meta", "save_image",
     "no_uds", "scan", "tune_save", "handler"}

----------------------------------------------------------------------------
(* Collaborators: tuneutils and clap, by their interface *)

\* Definitions::find(id): the platform with that id, if any.
find(definitions, id) ==
    LET S == {i \in 1..Len(definitions) : definitions[i].id = id}
    IN  IF S = {} THEN <<>>
        ELSE << definitions[CHOOSE i \in S : \A j \in S : i <= j] >>

\* Main::identify(data): the model of the platform whose signature matches.
identify(platform, data) ==
    LET S == {i \in 1..Len(platform.models) : platform.models[i].sig = data}
    IN  IF S = {} THEN <<>>
        ELSE << platform.models[CHOOSE i \in S : \A j \in S : i <= j] >>

\* RomManager::search(id): the first ROM of the manager with that id.
search(roms, id) ==
    LET S == {i \in 1..Len(roms) : roms[i].id = id}
    IN  IF S = {} THEN <<>>
        ELSE << roms[CHOOSE i \in S : \A j \in S : i <= j] >>

\* RomManager::new_rom(name, id, platform, model, data): registers the ROM.
new_rom(roms, name, id, platform, model, data) ==
    Append(roms, [name |-> name, id |-> id, platform |-> platform.id,
                  model |-> model.name, data |-> data])

\* RomManager::save_meta(): writes the metadata index of every managed ROM.
save_meta(roms) ==
    [i \in 1..Len(roms) |->
        [name |-> roms[i].name, id |-> roms[i].id,
         platform |-> roms[i].platform, model |-> roms[i].model]]

\* Rom::save(): writes the raw image of the ROM under its id.
rom_save(images, rom) ==
    {f \in images : f.id # rom.id} \cup {[id |-> rom.id, data |-> rom.data]}

\* TuneManager::add_meta(name, id, rom_id): appends the tune.
add_meta(tunes, name, id, rom_id) ==
    Append(tunes, [name |-> name, id |-> id, rom_id |-> rom_id])

\* The collaborator of step f fails in the call made under env.
Fails(env, f) == f \in env.faults

\* clap: positional arguments, `required` of them mandatory and `optional`
\* more allowed; an argument starting a flag ("--help") ends the parse
\* with the help text, which clap returns as an error too.
get_matches_from_safe(args, required, optional) ==
    IF \E i \in 1..Len(args) : args[i] = "--help" THEN [ok |-> FALSE, values |-> <<>>]
    ELSE IF Len(args) < required \/ Len(args) > required + optional
    THEN [ok |-> FALSE, values |-> <<>>]
    ELSE [ok |-> TRUE, values |-> args]

\* value_t!(matches, name, usize): the decimal value of the token, if it is one.
value_t_usize(token) ==
    LET S == {n \in 0..(MaxLinks + 1) : ToString(n) = token}
    IN  IF S = {} THEN <<>> ELSE << CHOOSE n \in S : TRUE >>

----------------------------------------------------------------------------
(* Outcomes *)

\* What a call did: its result, the application and disk state it leaves,
\* the steps it executed in order, the catalog indices whose create() it
\* invoked, the links it opened and released, the bytes downloaded, the
\* lines it listed and the catalog index it asked get_datalink for.
Outcome(res, a, d, steps, creates, opened, released, data) ==
    [res |-> res, app |-> a, disk |-> d, steps |-> steps, creates |-> creates,
     opened |-> opened, released |-> released, data |-> data, listed |-> <<>>,
     index |-> <<>>]

----------------------------------------------------------------------------
(* App (src/src/app.rs) *)

\* App::new: the loaded application context.
App_new ==
    [avail_links |-> DiscoveredLinks, definitions |-> LoadedDefinitions,
     roms |-> <<>>, tunes |-> <<>>]

\* Mutant of App_get_datalink: the bound is tested with > in place of >=,
\* so the index equal to the length reaches the Vec, which panics.
App_get_datalink_off_by_one(a, id, env) ==
    IF id > Len(a.avail_links)
    THEN [res |-> "InvalidDatalink", link |-> <<>>, creates |-> <<>>, opened |-> 0]
    ELSE IF id = Len(a.avail_links)
    THEN [res |-> "panic", link |-> <<>>, creates |-> <<>>, opened |-> 0]
    ELSE IF Fails(env, "create")
    THEN [res |-> "TuneUtils", link |-> <<>>, creates |-> <<id>>, opened |-> 0]
    ELSE [res |-> "Ok", link |-> << a.avail_links[id + 1] >>,
          creates |-> <<id>>, opened |-> 1]

\* App::get_datalink(id): InvalidDatalink past the end of the catalog,
\* otherwise one create() of the entry, whose error is wrapped (error.rs:22).
App_get_datalink(a, id, env) ==
    IF id >= Len(a.avail_links)
    THEN [res |-> "InvalidDatalink", link |-> <<>>, creates |-> <<>>, opened |-> 0]
    ELSE IF Fails(env, "create")
    THEN [res |-> "TuneUtils", link |-> <<>>, creates |-> <<id>>, opened |-> 0]
    ELSE [res |-> "Ok", link |-> << a.avail_links[id + 1] >>,
          creates |-> <<id>>, opened |-> 1]

\* Mutant of App_create_platform_link: the platform is looked up before
\* the link is resolved.
App_create_platform_link_platform_first(a, datalink, platform, env) ==
    LET p == find(a.definitions, platform)
    IN  IF p = <<>>
        THEN [res |-> "InvalidPlatform", link |-> <<>>, creates |-> <<>>,
              opened |-> 0, released |-> 0, steps |-> <<"find_platform">>]
        ELSE LET dl == App_get_datalink(a, datalink, env)
             IN  IF dl.res # "Ok"
                 THEN [res |-> dl.res, link |-> <<>>, creates |-> dl.creates,
                       opened |-> dl.opened, released |-> 0,
                       steps |-> <<"find_platform", "get_datalink">>]
                 ELSE [res |-> "Ok",
                       link |-> << [datalink |-> dl.link[1], platform |-> p[1]] >>,
                       creates |-> dl.creates, opened |-> dl.opened,
                       released |-> 0,
                       steps |-> <<"find_platform", "get_datalink">>]

\* Mutant of App_create_platform_link: the link opened is kept alive when
\* the platform is not found.
App_create_platform_link_leak(a, datalink, platform, env) ==
    LET dl == App_get_datalink(a, datalink, env)
    IN  IF dl.res # "Ok"
        THEN [res |-> dl.res, link |-> <<>>, creates |-> dl.creates,
              opened |-> dl.opened, released |-> 0,
              steps |-> <<"get_datalink">>]
        ELSE LET p == find(a.definitions, platform)
             IN  IF p = <<>>
                 THEN [res |-> "InvalidPlatform", link |-> <<>>,
                       creates |-> dl.creates, opened |-> dl.opened,
                       released |-> 0,
                       steps |-> <<"get_datalink", "find_platform">>]
                 ELSE [res |-> "Ok",
                       link |-> << [datalink |-> dl.link[1], platform |-> p[1]] >>,
                       creates |-> dl.creates, opened |-> dl.opened,
                       released |-> 0,
                       steps |-> <<"get_datalink", "find_platform">>]

\* App::create_platform_link(datalink, platform): the link first, then the
\* platform; the link opened is dropped when the platform is not found.
App_create_platform_link(a, datalink, platform, env) ==
    LET dl == App_get_datalink(a, datalink, env)
    IN  IF dl.res # "Ok"
        THEN [res |-> dl.res, link |-> <<>>, creates |-> dl.creates,
              opened |-> dl.opened, released |-> 0,
              steps |-> <<"get_datalink">>]
        ELSE LET p == find(a.definitions, platform)
             IN  IF p = <<>>
                 THEN [res |-> "InvalidPlatform", link |-> <<>>,
                       creates |-> dl.creates, opened |-> dl.opened,
                       released |-> 1,
                       steps |-> <<"get_datalink", "find_platform">>]
                 ELSE [res |-> "Ok",
                       link |-> << [datalink |-> dl.link[1], platform |-> p[1]] >>,
                       creates |-> dl.creates, opened |-> dl.opened,
                       released |-> 0,
                       steps |-> <<"get_datalink", "find_platform">>]

\* Mutant of App_download_register: name and id passed to new_rom in each
\* other's place.
App_download_register_swapped(a, d, platform, model, id, name, data, env) ==
    LET roms1 == new_rom(a.roms, id, name, platform, model, data)
        rom == roms1[Len(roms1)]
        a1 == [a EXCEPT !.roms = roms1]
        d1 == [d EXCEPT !.rom_meta = save_meta(roms1)]
        d2 == [d1 EXCEPT !.rom_images = rom_save(d1.rom_images, rom)]
        s3 == <<"downloader", "download", "identify", "new_rom">>
    IN  IF Fails(env, "save_meta")
        THEN Outcome("panic", a1, d, s3 \o <<"save_meta">>, <<>>, 0, 0, <<data>>)
        ELSE IF Fails(env, "save_image")
        THEN Outcome("panic", a1, d1, s3 \o <<"save_meta", "save_image">>,
                     <<>>, 0, 0, <<data>>)
        ELSE Outcome("Ok", a1, d2, s3 \o <<"save_meta", "save_image">>,
                     <<>>, 0, 0, <<data>>)

\* App::download, lines 95-99: the ROM is registered, then the metadata
\* index and the image are saved, each save unwrapped.
App_download_register(a, d, platform, model, id, name, data, env) ==
    LET roms1 == new_rom(a.roms, name, id, platform, model, data)
        rom == roms1[Len(roms1)]
        a1 == [a EXCEPT !.roms = roms1]
        d1 == [d EXCEPT !.rom_meta = save_meta(roms1)]
        d2 == [d1 EXCEPT !.rom_images = rom_save(d1.rom_images, rom)]
        s3 == <<"downloader", "download", "identify", "new_rom">>
    IN  IF Fails(env, "save_meta")
        THEN Outcome("panic", a1, d, s3 \o <<"save_meta">>, <<>>, 0, 0, <<data>>)
        ELSE IF Fails(env, "save_image")
        THEN Outcome("panic", a1, d1, s3 \o <<"save_meta", "save_image">>,
                     <<>>, 0, 0, <<data>>)
        ELSE Outcome("Ok", a1, d2, s3 \o <<"save_meta", "save_image">>,
                     <<>>, 0, 0, <<data>>)

\* App::download, line 94: UnknownModel when no model of the platform
\* matches the bytes, before anything is registered.
App_download_identify(a, d, platform, id, name, data, env) ==
    LET model == identify(platform, data)
    IN  IF model = <<>>
        THEN Outcome("UnknownModel", a, d, <<"downloader", "download", "identify">>,
                     <<>>, 0, 0, <<data>>)
        ELSE App_download_register(a, d, platform, model[1], id, name, data, env)

\* App::download(link, id, name, callback): downloader capability, blocking
\* download, identification, registration, then the two saves.
App_download(a, d, link, id, name, env) ==
    IF Fails(env, "no_downloader")
    THEN Outcome("DownloadUnsupported", a, d, <<"downloader">>, <<>>, 0, 0, <<>>)
    ELSE IF Fails(env, "download")
    THEN Outcome("TuneUtils", a, d, <<"downloader", "download">>, <<>>, 0, 0, <<>>)
    ELSE App_download_identify(a, d, link.platform, id, name, env.data, env)

----------------------------------------------------------------------------
(* The built-in commands (src/src/cli.rs, mod commands) *)

\* Mutant of commands_help: the commands are listed last to first.
commands_help_reversed(a, d, cmds) ==
    [Outcome("Ok", a, d, <<>>, <<>>, 0, 0, <<>>) EXCEPT
        !.listed = [i \in 1..Len(cmds) |-> cmds[Len(cmds) + 1 - i].command]]

\* commands::help: one line per registered command, in table order.
commands_help(a, d, cmds) ==
    [Outcome("Ok", a, d, <<>>, <<>>, 0, 0, <<>>) EXCEPT
        !.listed = [i \in 1..Len(cmds) |-> cmds[i].command]]

\* commands::links: one line per catalog entry, with its index.
commands_links(a, d) ==
    [Outcome("Ok", a, d, <<>>, <<>>, 0, 0, <<>>) EXCEPT
        !.listed = [i \in 1..Len(a.avail_links) |-> a.avail_links[i].interface]]

\* Mutant of commands_add_link: the entry is inserted at the front of the
\* catalog.
commands_add_link_front(a, d, args, env) ==
    IF \/ \E i \in 1..Len(args) : args[i] = "--help"
       \/ Len(args) = 0
       \/ ~feature_socketcan
       \/ args[1] # "socketcan"
       \/ ~get_matches_from_safe(Tail(args), 1, 0).ok
    THEN Outcome("Clap", a, d, <<"parse">>, <<>>, 0, 0, <<>>)
    ELSE Outcome("Ok",
                 [a EXCEPT !.avail_links =
                     << [typename |-> "SocketCAN", interface |-> args[2]] >> \o @],
                 d, <<"parse", "push">>, <<>>, 0, 0, <<>>)

\* commands::add_link: the subcommand is required; socketcan <interface>
\* pushes a SocketCAN entry at the end of the catalog.
commands_add_link(a, d, args, env) ==
    IF \/ \E i \in 1..Len(args) : args[i] = "--help"
       \/ Len(args) = 0
       \/ ~feature_socketcan
       \/ args[1] # "socketcan"
       \/ ~get_matches_from_safe(Tail(args), 1, 0).ok
    THEN Outcome("Clap", a, d, <<"parse">>, <<>>, 0, 0, <<>>)
    ELSE Outcome("Ok",
                 [a EXCEPT !.avail_links =
                     Append(@, [typename |-> "SocketCAN", interface |-> args[2]])],
                 d, <<"parse", "push">>, <<>>, 0, 0, <<>>)

\* commands::platforms: one line per platform definition.
commands_platforms(a, d) ==
    [Outcome("Ok", a, d, <<>>, <<>>, 0, 0, <<>>) EXCEPT
        !.listed = [i \in 1..Len(a.definitions) |-> a.definitions[i].id]]

\* Mutant of commands_download_register: name and id passed to new_rom in
\* each other's place.
commands_download_register_swapped(a, d, platform, model, id, name, data, env) ==
    LET roms1 == new_rom(a.roms, id, name, platform, model, data)
        rom == roms1[Len(roms1)]
        a1 == [a EXCEPT !.roms = roms1]
        d1 == [d EXCEPT !.rom_meta = save_meta(roms1)]
        d2 == [d1 EXCEPT !.rom_images = rom_save(d1.rom_images, rom)]
        s6 == <<"parse", "get_datalink", "find_platform", "downloader", "download",
                "identify", "new_rom">>
    IN  IF Fails(env, "save_meta")
        THEN Outcome("panic", a1, d, s6 \o <<"save_meta">>, <<>>, 1, 1, <<data>>)
        ELSE IF Fails(env, "save_image")
        THEN Outcome("panic", a1, d1, s6 \o <<"save_meta", "save_image">>,
                     <<>>, 1, 1, <<data>>)
        ELSE Outcome("Ok", a1, d2, s6 \o <<"save_meta", "save_image">>,
                     <<>>, 1, 1, <<data>>)

\* Mutant of commands_download_register: a failed image save takes the
\* record out of the manager and of the metadata index again.
commands_download_register_rollback(a, d, platform, model, id, name, data, env) ==
    LET roms1 == new_rom(a.roms, name, id, platform, model, data)
        rom == roms1[Len(roms1)]
        a1 == [a EXCEPT !.roms = roms1]
        d1 == [d EXCEPT !.rom_meta = save_meta(roms1)]
        d2 == [d1 EXCEPT !.rom_images = rom_save(d1.rom_images, rom)]
        s6 == <<"parse", "get_datalink", "find_platform", "downloader", "download",
                "identify", "new_rom">>
    IN  IF Fails(env, "save_meta")
        THEN Outcome("panic", a1, d, s6 \o <<"save_meta">>, <<>>, 1, 1, <<data>>)
        ELSE IF Fails(env, "save_image")
        THEN Outcome("panic", a, [d EXCEPT !.rom_meta = save_meta(a.roms)],
                     s6 \o <<"save_meta", "save_image">>, <<>>, 1, 1, <<data>>)
        ELSE Outcome("Ok", a1, d2, s6 \o <<"save_meta", "save_image">>,
                     <<>>, 1, 1, <<data>>)

\* commands::download, lines 183-189: the ROM is registered, then the
\* metadata index and the image are saved, each save unwrapped.
commands_download_register(a, d, platform, model, id, name, data, env) ==
    LET roms1 == new_rom(a.roms, name, id, platform, model, data)
        rom == roms1[Len(roms1)]
        a1 == [a EXCEPT !.roms = roms1]
        d1 == [d EXCEPT !.rom_meta = save_meta(roms1)]
        d2 == [d1 EXCEPT !.rom_images = rom_save(d1.rom_images, rom)]
        s6 == <<"parse", "get_datalink", "find_platform", "downloader", "download",
                "identify", "new_rom">>
    IN  IF Fails(env, "save_meta")
        THEN Outcome("panic", a1, d, s6 \o <<"save_meta">>, <<>>, 1, 1, <<data>>)
        ELSE IF Fails(env, "save_image")
        THEN Outcome("panic", a1, d1, s6 \o <<"save_meta", "save_image">>,
                     <<>>, 1, 1, <<data>>)
        ELSE Outcome("Ok", a1, d2, s6 \o <<"save_meta", "save_image">>,
                     <<>>, 1, 1, <<data>>)

\* Mutant of commands_download_identify: an image no model matches is
\* registered under the platform's first model, then reported unknown.
commands_download_identify_fallback(a, d, platform, id, name, data, env) ==
    LET model == identify(platform, data)
    IN  IF model = <<>>
        THEN [commands_download_register(a, d, platform, platform.models[1],
                                         id, name, data, env)
                 EXCEPT !.res = "UnknownModel",
                        !.steps = <<"parse", "get_datalink", "find_platform",
                                    "downloader", "download", "identify">>]
        ELSE commands_download_register(a, d, platform, model[1], id, name, data, env)

\* commands::download, line 182: UnknownModel when no model of the
\* platform matches the bytes, before anything is registered.
commands_download_identify(a, d, platform, id, name, data, env) ==
    LET model == identify(platform, data)
    IN  IF model = <<>>
        THEN Outcome("UnknownModel", a, d,
                     <<"parse", "get_datalink", "find_platform", "downloader",
                       "download", "identify">>, <<>>, 1, 1, <<data>>)
        ELSE commands_download_register(a, d, platform, model[1], id, name, data, env)

\* Mutant of commands_download: the platform is resolved before the link.
commands_download_platform_first(a, d, args, env) ==
    LET matches == get_matches_from_safe(args, 3, 1)
    IN
    IF ~matches.ok THEN Outcome("Clap", a, d, <<"parse">>, <<>>, 0, 0, <<>>)
    ELSE
    LET index == value_t_usize(matches.values[1])
    IN
    IF index = <<>> THEN Outcome("Clap", a, d, <<"parse">>, <<>>, 0, 0, <<>>)
    ELSE
    LET platform == find(a.definitions, matches.values[2])
        s1 == <<"parse", "find_platform">>
        datalink == IF platform = <<>>
                    THEN [res |-> "InvalidPlatform", link |-> <<>>, creates |-> <<>>,
                          opened |-> 0]
                    ELSE App_get_datalink(a, index[1], env)
        s2 == s1 \o <<"get_datalink">>
        id == matches.values[3]
        name == IF Len(matches.values) >= 4 THEN matches.values[4] ELSE id
        result ==
            IF platform = <<>>
            THEN Outcome("InvalidPlatform", a, d, s1, <<>>, 0, 0, <<>>)
            ELSE IF datalink.res # "Ok"
            THEN Outcome(datalink.res, a, d, s2, <<>>, datalink.opened, 0, <<>>)
            ELSE IF Fails(env, "no_downloader")
            THEN Outcome("DownloadUnsupported", a, d, s2 \o <<"downloader">>,
                         <<>>, 1, 1, <<>>)
            ELSE IF Fails(env, "download")
            THEN Outcome("TuneUtils", a, d, s2 \o <<"downloader", "download">>,
                         <<>>, 1, 1, <<>>)
            ELSE commands_download_identify(a, d, platform[1], id, name, env.data, env)
    IN  [result EXCEPT !.index = index, !.creates = datalink.creates]

\* commands::download: parse, link, platform, downloader capability,
\* blocking download, identification, registration, the two saves.
commands_download(a, d, args, env) ==
    LET matches == get_matches_from_safe(args, 3, 1)
    IN
    IF ~matches.ok THEN Outcome("Clap", a, d, <<"parse">>, <<>>, 0, 0, <<>>)
    ELSE
    LET index == value_t_usize(matches.values[1])
    IN
    IF index = <<>> THEN Outcome("Clap", a, d, <<"parse">>, <<>>, 0, 0, <<>>)
    ELSE
    LET datalink == App_get_datalink(a, index[1], env)
        s1 == <<"parse", "get_datalink">>
        platform == find(a.definitions, matches.values[2])
        s2 == s1 \o <<"find_platform">>
        id == matches.values[3]
        name == IF Len(matches.values) >= 4 THEN matches.values[4] ELSE id
        result ==
            IF datalink.res # "Ok"
            THEN Outcome(datalink.res, a, d, s1, <<>>, datalink.opened, 0, <<>>)
            ELSE IF platform = <<>>
            THEN Outcome("InvalidPlatform", a, d, s2, <<>>, 1, 1, <<>>)
            ELSE IF Fails(env, "no_downloader")
            THEN Outcome("DownloadUnsupported", a, d, s2 \o <<"downloader">>,
                         <<>>, 1, 1, <<>>)
            ELSE IF Fails(env, "download")
            THEN Outcome("TuneUtils", a, d, s2 \o <<"downloader", "download">>,
                         <<>>, 1, 1, <<>>)
            ELSE commands_download_identify(a, d, platform[1], id, name, env.data, env)
    IN  [result EXCEPT !.index = index, !.creates = datalink.creates]

\* commands::pids: the PIDs of a platform, InvalidPlatform when not found.
commands_pids(a, d, args) ==
    LET matches == get_matches_from_safe(args, 1, 0)
    IN  IF ~matches.ok THEN Outcome("Clap", a, d, <<"parse">>, <<>>, 0, 0, <<>>)
        ELSE IF find(a.definitions, matches.values[1]) = <<>>
        THEN Outcome("InvalidPlatform", a, d, <<"parse", "find_platform">>,
                     <<>>, 0, 0, <<>>)
        ELSE Outcome("Ok", a, d, <<"parse", "find_platform">>, <<>>, 0, 0, <<>>)

\* commands::roms: one line per managed ROM.
commands_roms(a, d) ==
    [Outcome("Ok", a, d, <<>>, <<>>, 0, 0, <<>>) EXCEPT
        !.listed = [i \in 1..Len(a.roms) |-> a.roms[i].id]]

\* commands::tunes: one line per tune.
commands_tunes(a, d) ==
    [Outcome("Ok", a, d, <<>>, <<>>, 0, 0, <<>>) EXCEPT
        !.listed = [i \in 1..Len(a.tunes) |-> a.tunes[i].id]]

\* Mutant of commands_create_tune: the ROM is not looked up.
commands_create_tune_unchecked(a, d, args, env) ==
    LET matches == get_matches_from_safe(args, 2, 1)
    IN
    IF ~matches.ok THEN Outcome("Clap", a, d, <<"parse">>, <<>>, 0, 0, <<>>)
    ELSE
    LET rom_id == matches.values[1]
        id == matches.values[2]
        name == IF Len(matches.values) >= 3 THEN matches.values[3] ELSE id
        a1 == [a EXCEPT !.tunes = add_meta(@, name, id, rom_id)]
        s3 == <<"parse", "add_meta", "save">>
    IN
    IF Fails(env, "tune_save")
    THEN Outcome("TuneUtils", a1, d, s3, <<>>, 0, 0, <<>>)
    ELSE Outcome("Ok", a1, [d EXCEPT !.tune_index = a1.tunes], s3, <<>>, 0, 0, <<>>)

\* Mutant of commands_create_tune: the name defaults to the rom id.
commands_create_tune_rom_name(a, d, args, env) ==
    LET matches == get_matches_from_safe(args, 2, 1)
    IN
    IF ~matches.ok THEN Outcome("Clap", a, d, <<"parse">>, <<>>, 0, 0, <<>>)
    ELSE
    LET rom_id == matches.values[1]
    IN
    IF search(a.roms, rom_id) = <<>>
    THEN Outcome("InvalidRom", a, d, <<"parse", "search">>, <<>>, 0, 0, <<>>)
    ELSE
    LET id == matches.values[2]
        name == IF Len(matches.values) >= 3 THEN matches.values[3] ELSE rom_id
        a1 == [a EXCEPT !.tunes = add_meta(@, name, id, rom_id)]
        s3 == <<"parse", "search", "add_meta", "save">>
    IN
    IF Fails(env, "tune_save")
    THEN Outcome("TuneUtils", a1, d, s3, <<>>, 0, 0, <<>>)
    ELSE Outcome("Ok", a1, [d EXCEPT !.tune_index = a1.tunes], s3, <<>>, 0, 0, <<>>)

\* Mutant of commands_create_tune: the result of the save is discarded.
commands_create_tune_discard(a, d, args, env) ==
    LET matches == get_matches_from_safe(args, 2, 1)
    IN
    IF ~matches.ok THEN Outcome("Clap", a, d, <<"parse">>, <<>>, 0, 0, <<>>)
    ELSE
    LET rom_id == matches.values[1]
    IN
    IF search(a.roms, rom_id) = <<>>
    THEN Outcome("InvalidRom", a, d, <<"parse", "search">>, <<>>, 0, 0, <<>>)
    ELSE
    LET id == matches.values[2]
        name == IF Len(matches.values) >= 3 THEN matches.values[3] ELSE id
        a1 == [a EXCEPT !.tunes = add_meta(@, name, id, rom_id)]
        s3 == <<"parse", "search", "add_meta", "save">>
    IN
    IF Fails(env, "tune_save")
    THEN Outcome("Ok", a1, d, s3, <<>>, 0, 0, <<>>)
    ELSE Outcome("Ok", a1, [d EXCEPT !.tune_index = a1.tunes], s3, <<>>, 0, 0, <<>>)

\* commands::create_tune: the ROM must resolve; the tune is appended and
\* the tune index saved, the save's error propagated.
commands_create_tune(a, d, args, env) ==
    LET matches == get_matches_from_safe(args, 2, 1)
    IN
    IF ~matches.ok THEN Outcome("Clap", a, d, <<"parse">>, <<>>, 0, 0, <<>>)
    ELSE
    LET rom_id == matches.values[1]
    IN
    IF search(a.roms, rom_id) = <<>>
    THEN Outcome("InvalidRom", a, d, <<"parse", "search">>, <<>>, 0, 0, <<>>)
    ELSE
    LET id == matches.values[2]
        name == IF Len(matches.values) >= 3 THEN matches.values[3] ELSE id
        a1 == [a EXCEPT !.tunes = add_meta(@, name, id, rom_id)]
        s3 == <<"parse", "search", "add_meta", "save">>
    IN
    IF Fails(env, "tune_save")
    THEN Outcome("TuneUtils", a1, d, s3, <<>>, 0, 0, <<>>)
    ELSE Outcome("Ok", a1, [d EXCEPT !.tune_index = a1.tunes], s3, <<>>, 0, 0, <<>>)

\* Mutant of commands_scan: a scan that succeeds adds the link it used to
\* the link catalog.
commands_scan_keeps_link(a, d, args, env) ==
    LET matches == get_matches_from_safe(args, 2, 0)
    IN
    IF ~matches.ok THEN Outcome("Clap", a, d, <<"parse">>, <<>>, 0, 0, <<>>)
    ELSE
    LET index == value_t_usize(matches.values[1])
    IN
    IF index = <<>> THEN Outcome("Clap", a, d, <<"parse">>, <<>>, 0, 0, <<>>)
    ELSE
    LET datalink == App_get_datalink(a, index[1], env)
        s1 == <<"parse", "get_datalink">>
        platform == find(a.definitions, matches.values[2])
        s2 == s1 \o <<"find_platform">>
        result ==
            IF datalink.res # "Ok"
            THEN Outcome(datalink.res, a, d, s1, <<>>, datalink.opened, 0, <<>>)
            ELSE IF platform = <<>>
            THEN Outcome("InvalidPlatform", a, d, s2, <<>>, 1, 1, <<>>)
            ELSE IF Fails(env, "no_uds")
            THEN Outcome("InvalidDatalink", a, d, s2 \o <<"uds">>, <<>>, 1, 1, <<>>)
            ELSE IF Fails(env, "scan")
            THEN Outcome("TuneUtils", a, d, s2 \o <<"uds", "scanner", "scan">>,
                         <<>>, 1, 1, <<>>)
            ELSE Outcome("Ok",
                         [a EXCEPT !.avail_links = Append(@, datalink.link[1])],
                         d, s2 \o <<"uds", "scanner", "scan">>, <<>>, 1, 1, <<>>)
    IN  [result EXCEPT !.index = index, !.creates = datalink.creates]

\* commands::scan: parse, link, platform, UDS capability (InvalidDatalink
\* when absent), then the scanner's read of the trouble codes.
commands_scan(a, d, args, env) ==
    LET matches == get_matches_from_safe(args, 2, 0)
    IN
    IF ~matches.ok THEN Outcome("Clap", a, d, <<"parse">>, <<>>, 0, 0, <<>>)
    ELSE
    LET index == value_t_usize(matches.values[1])
    IN
    IF index = <<>> THEN Outcome("Clap", a, d, <<"parse">>, <<>>, 0, 0, <<>>)
    ELSE
    LET datalink == App_get_datalink(a, index[1], env)
        s1 == <<"parse", "get_datalink">>
        platform == find(a.definitions, matches.values[2])
        s2 == s1 \o <<"find_platform">>
        result ==
            IF datalink.res # "Ok"
            THEN Outcome(datalink.res, a, d, s1, <<>>, datalink.opened, 0, <<>>)
            ELSE IF platform = <<>>
            THEN Outcome("InvalidPlatform", a, d, s2, <<>>, 1, 1, <<>>)
            ELSE IF Fails(env, "no_uds")
            THEN Outcome("InvalidDatalink", a, d, s2 \o <<"uds">>, <<>>, 1, 1, <<>>)
            ELSE IF Fails(env, "scan")
            THEN Outcome("TuneUtils", a, d, s2 \o <<"uds", "scanner", "scan">>,
                         <<>>, 1, 1, <<>>)
            ELSE Outcome("Ok", a, d, s2 \o <<"uds", "scanner", "scan">>,
                         <<>>, 1, 1, <<>>)
    IN  [result EXCEPT !.index = index, !.creates = datalink.creates]

----------------------------------------------------------------------------
(* Cli (src/src/cli.rs) *)

Command(command, description, callback) ==
    [command |-> command, description |-> description, callback |-> callback]

\* Cli::register_all: the ten built-in commands, pushed in this order.
DefaultCommands ==
    << Command("help", "This command", "help"),
       Command("links", "Lists available datalinks", "links"),
       Command("add_link", "Adds a datalink", "add_link"),
       Command("platforms", "Lists all installed platform definitions", "platforms"),
       Command("download", "Downloads a ROM from a platform link", "download"),
       Command("pids", "Lists PIDs for a platform", "pids"),
       Command("roms", "Lists downloaded ROMs", "roms"),
       Command("tunes", "Lists tunes", "tunes"),
       Command("create_tune", "Creates a new tune", "create_tune"),
       Command("scan", "Scans OBD-II trouble codes", "scan") >>

Cli_register_all(cmds) == cmds \o DefaultCommands

\* Cli::register_command: pushes the command at the end of the table.
Cli_register_command(cmds, command) == Append(cmds, command)

\* A handler registered by the host: it owns no application state and
\* returns Ok or an error of its own.
custom_handler(a, d, env) ==
    IF Fails(env, "handler")
    THEN Outcome("Io", a, d, <<>>, <<>>, 0, 0, <<>>)
    ELSE Outcome("Ok", a, d, <<>>, <<>>, 0, 0, <<>>)

\* The closure of a command, called with the CommandContext.
callback(name, a, d, cmds, args, env) ==
    CASE name = "help" -> commands_help(a, d, cmds)
      [] name = "links" -> commands_links(a, d)
      [] name = "add_link" -> commands_add_link(a, d, args, env)
      [] name = "platforms" -> commands_platforms(a, d)
      [] name = "download" -> commands_download(a, d, args, env)
      [] name = "pids" -> commands_pids(a, d, args)
      [] name = "roms" -> commands_roms(a, d)
      [] name = "tunes" -> commands_tunes(a, d)
      [] name = "create_tune" -> commands_create_tune(a, d, args, env)
      [] name = "scan" -> commands_scan(a, d, args, env)
      [] OTHER -> custom_handler(a, d, env)

\* Mutant of find_command: the last command of that keyword.
find_command_last(cmds, cmd) ==
    LET S == {i \in 1..Len(cmds) : cmds[i].command = cmd}
    IN  IF S = {} THEN <<>>
        ELSE << (CHOOSE i \in S : \A j \in S : i >= j) - 1 >>

\* The position (0-based) of the first command whose keyword is cmd.
find_command(cmds, cmd) ==
    LET S == {i \in 1..Len(cmds) : cmds[i].command = cmd}
    IN  IF S = {} THEN <<>>
        ELSE << (CHOOSE i \in S : \A j \in S : i <= j) - 1 >>

\* How process renders a handler's error: a clap error as its own usage
\* text, any other error as a labelled line; nothing for Ok.
render(res) ==
    IF res = "Ok" \/ res = "panic" THEN "none"
    ELSE IF res = "Clap" THEN "usage"
    ELSE "Error"

\* Mutant of Cli_process: a keyword that matches nothing falls back to
\* the first command of the table.
Cli_process_fallback(a, d, cmds, tokens, env) ==
    LET nothing == Outcome("none", a, d, <<>>, <<>>, 0, 0, <<>>)
    IN
    IF tokens = <<>> \/ cmds = <<>>
    THEN [out |-> "InvalidCommand", ran |-> <<>>, rendered |-> "none", h |-> nothing]
    ELSE
    LET found == find_command(cmds, Head(tokens))
        command == IF found = <<>> THEN <<0>> ELSE found
        result == callback(cmds[command[1] + 1].callback, a, d, cmds, Tail(tokens), env)
    IN  [out |-> IF result.res = "panic" THEN "panic" ELSE "Ok",
         ran |-> command,
         rendered |-> render(result.res),
         h |-> result]

\* Cli::process: the first token selects the first registered command of
\* that keyword, whose handler runs with the other tokens; the handler's
\* error is printed and process returns Ok.  An unwrap() that panics in
\* the handler unwinds through process.
Cli_process(a, d, cmds, tokens, env) ==
    LET nothing == Outcome("none", a, d, <<>>, <<>>, 0, 0, <<>>)
    IN
    IF tokens = <<>>
    THEN [out |-> "InvalidCommand", ran |-> <<>>, rendered |-> "none", h |-> nothing]
    ELSE
    LET command == find_command(cmds, Head(tokens))
    IN
    IF command = <<>>
    THEN [out |-> "InvalidCommand", ran |-> <<>>, rendered |-> "none", h |-> nothing]
    ELSE
    LET result == callback(cmds[command[1] + 1].callback, a, d, cmds, Tail(tokens), env)
    IN  [out |-> IF result.res = "panic" THEN "panic" ELSE "Ok",
         ran |-> command,
         rendered |-> render(result.res),
         h |-> result]

----------------------------------------------------------------------------
(* Inputs *)

\* The collaborators fail at the steps named, and a download yields data.
EnvOf(faults, data) == [faults |-> faults, data |-> data]

\* One collaborator fault, or none.
Env(fault, data) == EnvOf(IF fault = "none" THEN {} ELSE {fault}, data)

NoFault == Env("none", "junk")

IndexTokens == {ToString(n) : n \in 0..MaxLinks}

DownloadArgs ==
    {<<i, p, r>> : i \in {"0", "1"}, p \in PlatformTokens, r \in RomIds}
    \cup {<<i, p, r, n>> : i \in {"0", "1"}, p \in PlatformTokens, r \in RomIds, n \in Names}
    \cup {<<"0", "P1">>, <<"x", "P1", "r1">>, <<"0", "P1", "r1", "N", "extra">>}

DownloadFaults ==
    {"none", "create", "no_downloader", "download", "save_meta", "save_image"}

\* The collaborator faults of a call of App::download.
LibraryFaults ==
    {{}, {"no_downloader"}, {"download"}, {"save_meta"}, {"save_image"},
     {"no_downloader", "download"}, {"save_meta", "save_image"}}

\* The bytes a download of the pipeline yields: an image of the first
\* model, or one no model matches.
PipelineData == {"d1", "junk"}

\* Two collaborators of consecutive steps that would both fail.
DownloadFaultPairs ==
    {{"create", "no_downloader"}, {"no_downloader", "download"},
     {"save_meta", "save_image"}}

ScanArgs ==
    {<<i, p>> : i \in IndexTokens, p \in PlatformTokens}
    \cup {<<>>, <<"x", "P1">>, <<"0", "P1", "extra">>}

CreateTuneArgs ==
    {<<r, t>> : r \in RomIds, t \in TuneIds}
    \cup {<<r, t, n>> : r \in RomIds, t \in TuneIds, n \in Names}
    \cup {<<>>, <<"r1">>, <<"--help">>}

AddLinkArgs == {<<"socketcan", "can1">>, <<"socketcan">>, <<"can1">>, <<>>}

PidsArgs == {<<p>> : p \in PlatformTokens} \cup {<<>>}

ExtraKeywords == {"a", "b", "help"}

----------------------------------------------------------------------------
(* The state machine *)

Record(op, args, out, ran, rendered, o) ==
    [op |-> op, args |-> args, out |-> out, res |-> o.res,
     ran |-> ran, rendered |-> rendered, steps |-> o.steps,
     creates |-> o.creates, opened |-> o.opened, released |-> o.released,
     index |-> o.index, data |-> o.data, listed |-> o.listed, faults |-> {}]

Quiet(res) == Outcome(res, <<>>, <<>>, <<>>, <<>>, 0, 0, <<>>)

Init ==
    /\ app = App_new
    /\ disk = [rom_meta |-> <<>>, rom_images |-> {}, tune_index |-> <<>>]
    /\ commands = <<>>
    /\ live = 0
    /\ held = <<>>
    /\ aborted = FALSE
    /\ last = Record("new", <<>>, "Ok", <<>>, "none", Quiet("Ok"))

\* cli.register_all()
RegisterAll ==
    /\ ~aborted
    /\ Len(commands) <= MaxExtra
    /\ \A i \in 1..Len(commands) : commands[i].callback = "custom"
    /\ commands' = Cli_register_all(commands)
    /\ last' = Record("register_all", <<>>, "Ok", <<>>, "none", Quiet("Ok"))
    /\ UNCHANGED <<app, disk, live, held, aborted>>

\* cli.register_command(Command::new(k, ..)) by the host
RegisterCommand(k) ==
    /\ ~aborted
    /\ Cardinality({i \in 1..Len(commands) : commands[i].callback = "custom"}) < MaxExtra
    /\ commands' = Cli_register_command(commands, Command(k, "Host command", "custom"))
    /\ last' = Record("register_command", <<k>>, "Ok", <<>>, "none", Quiet("Ok"))
    /\ UNCHANGED <<app, disk, live, held, aborted>>

\* cli.process(tokens) under the collaborator behaviour env
Process(tokens, env) ==
    /\ ~aborted
    /\ \E r \in {Cli_process(app, disk, commands, tokens, env)} :
           /\ app' = r.h.app
           /\ disk' = r.h.disk
           /\ live' = (live + r.h.opened) - r.h.released
           /\ aborted' = (r.out = "panic")
           /\ last' = [Record("process", tokens, r.out, r.ran, r.rendered, r.h)
                           EXCEPT !.faults = env.faults]
    /\ UNCHANGED <<commands, held>>

ProcessNone ==
    /\ ~aborted
    /\ \E tokens \in {<<>>, <<"unknown">>, <<"unknown", "0", "P1", "r1">>} :
            Process(tokens, NoFault)

ProcessListing ==
    /\ ~aborted
    /\ \E k \in {"help", "links", "platforms", "roms", "tunes"} :
        Process(<<k>>, NoFault)

ProcessAddLink ==
    /\ Len(app.avail_links) < MaxLinks
    /\ \E args \in AddLinkArgs : Process(<<"add_link">> \o args, NoFault)

ProcessDownload ==
    /\ Len(app.roms) < MaxRoms
    /\ \/ \E args \in DownloadArgs, data \in Data, fault \in DownloadFaults :
                Process(<<"download">> \o args, Env(fault, data))
       \/ \E p \in PlatformTokens, r \in RomIds, data \in Data,
             faults \in DownloadFaultPairs :
                Process(<<"download", "0", p, r>>, EnvOf(faults, data))

ProcessPids ==
    /\ ~aborted
    /\ \E args \in PidsArgs : Process(<<"pids">> \o args, NoFault)

ProcessCreateTune ==
    /\ Len(app.tunes) < MaxTunes
    /\ \E args \in CreateTuneArgs, fault \in {"none", "tune_save"} :
            Process(<<"create_tune">> \o args, Env(fault, "junk"))

ProcessScan ==
    /\ ~aborted
    /\ \E args \in ScanArgs, fault \in {"none", "create", "no_uds", "scan"} :
        Process(<<"scan">> \o args, Env(fault, "junk"))

ProcessExtra ==
    /\ ~aborted
    /\ \E k \in ExtraKeywords, fault \in {"none", "handler"} :
        Process(<<k>>, Env(fault, "junk"))

\* A download that succeeds, to fill the ROM catalog.
ProcessDownloadOk ==
    /\ Len(app.roms) < MaxRoms
    /\ \E r \in RomIds : Process(<<"download", "0", "P1", r>>, Env("none", "d1"))

\* A download with a name, of an image of the second model or of none.
ProcessDownloadNamed ==
    /\ Len(app.roms) < MaxRoms
    /\ \E r \in RomIds, n \in Names, data \in {"d2", "junk"} :
            Process(<<"download", "0", "P1", r, n>>, Env("none", data))

\* A download from the command line, without a name, under the faults of
\* the library pipeline.
ProcessDownloadPipeline ==
    /\ Len(app.roms) < MaxRoms
    /\ \E i \in {"0", "1"}, p \in PlatformTokens, r \in RomIds, data \in PipelineData,
          faults \in LibraryFaults \cup {{"create"}} :
            Process(<<"download", i, p, r>>, EnvOf(faults, data))

\* app.get_datalink(id) called by the host, which keeps the link
GetDatalink ==
    /\ ~aborted
    /\ Len(held) < MaxHeld
    /\ \E id \in 0..MaxLinks, fault \in {"none", "create"} :
        \E r \in {App_get_datalink(app, id, Env(fault, "junk"))} :
            /\ held' = IF r.res = "Ok"
                       THEN Append(held, [datalink |-> r.link[1], platform |-> <<>>])
                       ELSE held
            /\ live' = live + r.opened
            /\ last' = Record("get_datalink", <<ToString(id)>>, r.res, <<>>, "none",
                              [Outcome(r.res, <<>>, <<>>, <<"get_datalink">>,
                                       r.creates, r.opened, 0, <<>>)
                                  EXCEPT !.index = <<id>>])
    /\ UNCHANGED <<app, disk, commands, aborted>>

\* app.create_platform_link(datalink, platform) called by the host
CreatePlatformLink ==
    /\ ~aborted
    /\ Len(held) < MaxHeld
    /\ \E datalink \in 0..MaxLinks, platform \in PlatformTokens,
          fault \in {"none", "create"} :
        \E r \in {App_create_platform_link(app, datalink, platform, Env(fault, "junk"))} :
            /\ held' = IF r.res = "Ok"
                       THEN Append(held, [datalink |-> r.link[1].datalink,
                                          platform |-> << r.link[1].platform >>])
                       ELSE held
            /\ live' = (live + r.opened) - r.released
            /\ last' = Record("create_platform_link", <<ToString(datalink), platform>>,
                              r.res, <<>>, "none",
                              [Outcome(r.res, <<>>, <<>>, r.steps, r.creates,
                                       r.opened, r.released, <<>>)
                                  EXCEPT !.index = <<datalink>>])
    /\ UNCHANGED <<app, disk, commands, aborted>>

\* app.download(&link, id, name, callback) on a platform link the host holds
Download ==
    /\ ~aborted
    /\ Len(app.roms) < MaxRoms
    /\ \E i \in 1..Len(held), id \in RomIds, name \in Names, data \in PipelineData,
          faults \in LibraryFaults :
        /\ held[i].platform # <<>>
        /\ \E r \in {App_download(app, disk,
                        [datalink |-> held[i].datalink, platform |-> held[i].platform[1]],
                        id, name, EnvOf(faults, data))} :
               /\ app' = r.app
               /\ disk' = r.disk
               /\ aborted' = (r.res = "panic")
               /\ last' = [Record("download", <<held[i].platform[1].id, id, name>>,
                                  r.res, <<>>, "none", r)
                               EXCEPT !.faults = faults]
    /\ UNCHANGED <<commands, live, held>>

\* the host drops a link it holds
DropLink ==
    /\ ~aborted
    /\ \E i \in 1..Len(held) :
        /\ held' = [j \in 1..(Len(held) - 1) |-> IF j < i THEN held[j] ELSE held[j + 1]]
        /\ live' = live - 1
    /\ last' = Record("drop", <<>>, "Ok", <<>>, "none", Quiet("Ok"))
    /\ UNCHANGED <<app, disk, commands, aborted>>

----------------------------------------------------------------------------
(* Specifications *)

\* The command-line session around the download pipeline.
Next ==
    \/ RegisterAll
    \/ ProcessNone
    \/ ProcessListing
    \/ ProcessDownload

Spec == Init /\ [][Next]_vars

\* The link catalog and the binder: the host's calls into App and the
\* commands that open a link.
ProcessDownloadFails ==
    /\ ~aborted
    /\ \E i \in IndexTokens, p \in PlatformTokens,
       fault \in {"none", "create", "no_downloader", "download"} :
        Process(<<"download", i, p, "r1">>, Env(fault, "junk"))

NextLink ==
    \/ RegisterAll
    \/ ProcessAddLink
    \/ ProcessScan
    \/ ProcessDownloadFails
    \/ GetDatalink
    \/ CreatePlatformLink
    \/ DropLink

SpecLink == Init /\ [][NextLink]_vars

\* The download pipeline, driven from the command line and by a host that
\* binds a platform link and calls App::download.
NextPipeline ==
    \/ RegisterAll
    \/ ProcessDownloadPipeline
    \/ CreatePlatformLink
    \/ Download
    \/ DropLink

SpecPipeline == Init /\ [][NextPipeline]_vars

\* The tune workflow on a catalog of downloaded ROMs.
NextTune ==
    \/ RegisterAll
    \/ ProcessDownloadOk
    \/ ProcessCreateTune
    \/ ProcessListing
    \/ ProcessDownloadNamed
    \/ ProcessPids

SpecTune == Init /\ [][NextTune]_vars

\* Scans in a session with links added at run time, ROMs and tunes.
NextScan ==
    \/ RegisterAll
    \/ ProcessAddLink
    \/ ProcessDownloadOk
    \/ ProcessCreateTune
    \/ ProcessScan

SpecScan == Init /\ [][NextScan]_vars

\* The command registry with commands of the host.
NextRegistry ==
    \/ RegisterAll
    \/ \E k \in ExtraKeywords : RegisterCommand(k)
    \/ ProcessNone
    \/ ProcessListing
    \/ ProcessExtra

SpecRegistry == Init /\ [][NextRegistry]_vars

----------------------------------------------------------------------------
(* Reading the record of a call *)

\* The call l was a process() that ran the handler of built-in command k.
RanCommand(l, k) ==
    /\ l.op = "process"
    /\ l.ran # <<>>
    /\ commands[l.ran[1] + 1].callback = k

ReachedStep(l, step) == \E i \in 1..Len(l.steps) : l.steps[i] = step

\* The arguments of a download command line: download <datalink> <platform> <id> [name]
SuppliedPlatform(l) == l.args[3]
SuppliedId(l) == l.args[4]
SuppliedName(l) == IF Len(l.args) >= 5 THEN l.args[5] ELSE l.args[4]

\* Model m of platform pid has the signature of the bytes.
ModelMatches(pid, m, bytes) ==
    \E i \in 1..Len(app.definitions) :
        /\ app.definitions[i].id = pid
        /\ \E k \in 1..Len(app.definitions[i].models) :
            /\ app.definitions[i].models[k].name = m
            /\ app.definitions[i].models[k].sig = bytes

NoModelMatches(pid, bytes) ==
    \A i \in 1..Len(app.definitions) :
        app.definitions[i].id = pid =>
            \A k \in 1..Len(app.definitions[i].models) :
                app.definitions[i].models[k].sig # bytes

\* A save of the download pipeline was attempted and its write is not on disk.
SaveFailed(l) ==
    /\ ReachedStep(l, "save_meta")
    /\ \/ disk.rom_meta # save_meta(app.roms)
       \/ ~ReachedStep(l, "save_image")
       \/ [id |-> app.roms[Len(app.roms)].id, data |-> app.roms[Len(app.roms)].data]
              \notin disk.rom_images

----------------------------------------------------------------------------
(* Claims *)

\* C1 (as claimed): whenever the first token of process equals a registered
\* keyword, the handler runs and process returns Ok, whatever the handler's
\* outcome, so the read loop that called it goes on.
C1_FoundCommandReturnsOk ==
    (/\ last.op = "process"
     /\ last.args # <<>>
     /\ \E i \in 1..Len(commands) : commands[i].command = Head(last.args))
    => (last.ran # <<>> /\ last.out = "Ok" /\ ~aborted)

\* C2 (as claimed): when the downloaded bytes match no model of the platform,
\* download returns UnknownModel, the ROM manager resolves nothing for the
\* supplied id, and the catalog and the disk are as before.
C2_FailedDownloadResolvesNothing ==
    [][(/\ RanCommand(last', "download")
        /\ ReachedStep(last', "identify")
        /\ NoModelMatches(SuppliedPlatform(last'), last'.data[1]))
       => (/\ last'.res = "UnknownModel"
           /\ search(app'.roms, SuppliedId(last')) = <<>>
           /\ app'.roms = app.roms
           /\ disk' = disk)]_vars

\* C2 (amended): when the downloaded bytes match no model of the platform,
\* download returns UnknownModel without registering or saving anything: the
\* ROM catalog, the metadata index and the images are as before the call, and
\* the supplied id resolves to what it resolved to before (nothing, when no
\* ROM had that id).
C2_FailedDownloadChangesNothing ==
    [][(/\ RanCommand(last', "download")
        /\ ReachedStep(last', "identify")
        /\ NoModelMatches(SuppliedPlatform(last'), last'.data[1]))
       => (/\ last'.res = "UnknownModel"
           /\ ~ReachedStep(last', "new_rom")
           /\ ~ReachedStep(last', "save_meta")
           /\ ~ReachedStep(last', "save_image")
           /\ app'.roms = app.roms
           /\ disk' = disk
           /\ search(app'.roms, SuppliedId(last')) = search(app.roms, SuppliedId(last'))
           /\ ((\A i \in 1..Len(app.roms) : app.roms[i].id # SuppliedId(last'))
                  => search(app'.roms, SuppliedId(last')) = <<>>))]_vars

\* C2 witness: a download failed identification for an id that a ROM of the
\* catalog already has.
C2_Witness ==
    /\ RanCommand(last, "download")
    /\ last.res = "UnknownModel"
    /\ last.data = <<"junk">>
    /\ search(app.roms, SuppliedId(last)) # <<>>

C4_SaveFailurePropagates ==
    (RanCommand(last, "download") /\ SaveFailed(last))
    => (/\ last.res \notin {"Ok", "panic"}
        /\ last.rendered = "Error"
        /\ last.out = "Ok"
        /\ ~aborted)

\* C9: process with no token, or with a first token that is the keyword of
\* no registered command, returns InvalidCommand, runs no handler and leaves
\* the link catalog, the ROM catalog, the tune catalog and the disk as they
\* were.
C9_UnknownCommandIsInvalid ==
    [][(/\ last'.op = "process"
        /\ \/ last'.args = <<>>
           \/ \A i \in 1..Len(commands) : commands[i].command # Head(last'.args))
       => (/\ last'.out = "InvalidCommand"
           /\ last'.ran = <<>>
           /\ last'.steps = <<>>
           /\ app' = app
           /\ disk' = disk
           /\ commands' = commands
           /\ live' = live)]_vars

\* C9 witness: an unknown keyword was refused with commands registered and
\* a ROM in the catalog.
C9_Witness ==
    /\ last.op = "process"
    /\ last.args = <<"unknown">>
    /\ last.out = "InvalidCommand"
    /\ Len(commands) > 0
    /\ Len(app.roms) > 0

\* The platform id p is absent from the platform catalog.
PlatformAbsent(p) == \A i \in 1..Len(app.definitions) : app.definitions[i].id # p

\* C5 (as claimed): create_platform_link returns InvalidPlatform exactly
\* when the platform id is absent from the catalog, whatever the datalink
\* index.
C5_InvalidPlatformIffAbsent ==
    last.op = "create_platform_link"
    => (last.res = "InvalidPlatform" <=> PlatformAbsent(last.args[2]))

\* C5 (amended): create_platform_link returns InvalidPlatform exactly when
\* the link was resolved (the index is in range and create() succeeded) and
\* the platform id is absent from the catalog; an out-of-range index gives
\* InvalidDatalink and a failed create() its wrapped error, whether or not
\* the platform exists.
C5_InvalidPlatformIffLinkResolvedAndAbsent ==
    last.op = "create_platform_link"
    => LET inRange == last.index[1] < Len(app.avail_links)
       IN  /\ last.res = "InvalidPlatform"
                <=> (inRange /\ last.opened = 1 /\ PlatformAbsent(last.args[2]))
           /\ ~inRange => last.res = "InvalidDatalink"
           /\ (inRange /\ last.opened = 0) => last.res = "TuneUtils"

\* C5 witness: the link at the index added at run time was opened and the
\* platform was not in the catalog.
C5_Witness ==
    /\ last.op = "create_platform_link"
    /\ last.res = "InvalidPlatform"
    /\ last.index = <<1>>
    /\ last.args[2] = "PX"

\* C6: no call leaves a link open that nobody owns: the open links are
\* exactly those the host was handed and still holds; a create_platform_link
\* that fails on the platform has opened one link with one create() and
\* released it, and a call that fails hands nothing over.
C6_NoLinkLeaks ==
    /\ live = Len(held)
    /\ (last.op = "create_platform_link" /\ last.res = "InvalidPlatform")
          => (/\ last.opened = 1
              /\ last.released = 1
              /\ last.creates = last.index)
    /\ (last.op \in {"get_datalink", "create_platform_link"} /\ last.res # "Ok")
          => last.opened = last.released
    /\ last.op = "process" => last.opened = last.released
    /\ Len(last.creates) <= 1

\* C6 witness: create_platform_link opened a link, failed on the platform,
\* and no link is open.
C6_Witness ==
    /\ last.op = "create_platform_link"
    /\ last.res = "InvalidPlatform"
    /\ last.opened = 1
    /\ live = 0

\* C7: get_datalink returns InvalidDatalink for an index at or past the
\* length of the catalog and invokes no create(); for an index below the
\* length it invokes create() of the entry at that index once, returns the
\* link of that entry when create() succeeds and the wrapped error when it
\* fails.
C7_GetDatalink ==
    last.op = "get_datalink"
    => LET id == last.index[1]
       IN  /\ id >= Len(app.avail_links)
                => (/\ last.res = "InvalidDatalink"
                    /\ last.creates = <<>>
                    /\ last.opened = 0)
           /\ id < Len(app.avail_links)
                => (/\ last.creates = <<id>>
                    /\ last.opened = 1 =>
                          (/\ last.res = "Ok"
                           /\ held # <<>>
                           /\ held[Len(held)].datalink = app.avail_links[id + 1])
                    /\ last.opened = 0 => last.res = "TuneUtils")

\* C7 witness: get_datalink returned the link of the entry added at run time.
C7_Witness ==
    /\ last.op = "get_datalink"
    /\ last.index = <<1>>
    /\ last.res = "Ok"
    /\ held[Len(held)].datalink.interface = "can1"

\* C8: create_tune with a rom id that no ROM of the manager has returns
\* InvalidRom, appends no tune and saves no tune index; with a rom id that
\* resolves it appends one tune with the supplied id, the supplied name (the
\* id when none is given) and the supplied rom id as its rom reference.
C8_CreateTune ==
    [][(/\ RanCommand(last', "create_tune")
        /\ Len(last'.args) \in {3, 4}
        /\ \A i \in 1..Len(last'.args) : last'.args[i] # "--help")
       => IF \A i \in 1..Len(app.roms) : app.roms[i].id # last'.args[2]
          THEN /\ last'.res = "InvalidRom"
               /\ app' = app
               /\ disk' = disk
               /\ ~ReachedStep(last', "save")
          ELSE /\ app'.tunes =
                    Append(app.tunes,
                           [name |-> IF Len(last'.args) = 4 THEN last'.args[4]
                                     ELSE last'.args[3],
                            id |-> last'.args[3],
                            rom_id |-> last'.args[2]])
               /\ app'.roms = app.roms
               /\ last'.res \in {"Ok", "TuneUtils"}
               /\ last'.res = "Ok" => disk'.tune_index = app'.tunes]_vars

\* C8 witness: a tune was created on the second ROM of the catalog.
C8_Witness ==
    /\ RanCommand(last, "create_tune")
    /\ last.res = "Ok"
    /\ Len(app.roms) = 2
    /\ app.tunes # <<>>
    /\ app.tunes[Len(app.tunes)].rom_id = app.roms[2].id
    /\ app.roms[1].id # app.roms[2].id

\* C10: process runs the handler of the earliest registered command whose
\* keyword equals the first token, and no other: a later command of the
\* same keyword is never run.
C10_FirstRegisteredMatchRuns ==
    (last.op = "process" /\ last.args # <<>>)
    => \A i \in 1..Len(commands) :
          (/\ commands[i].command = Head(last.args)
           /\ \A j \in 1..(i - 1) : commands[j].command # Head(last.args))
          => (/\ last.ran = <<i - 1>>
              /\ commands[i].callback = "custom" => last.listed = <<>>
              /\ commands[i].callback = "help"
                    => last.listed = [n \in 1..Len(commands) |-> commands[n].command])

\* C10 witness: two commands have the keyword of the call and the earlier
\* one ran.
C10_Witness ==
    /\ last.op = "process"
    /\ last.args # <<>>
    /\ \E i, j \in 1..Len(commands) :
          /\ i < j
          /\ commands[i].command = Head(last.args)
          /\ commands[j].command = Head(last.args)
          /\ commands[i].callback # commands[j].callback
          /\ last.ran = <<i - 1>>

\* C11 (as claimed): once the built-in commands are registered, process
\* with the single token help returns Ok and lists every registered command
\* once, in registration order.
C11_HelpListsRegistrations ==
    (/\ last.op = "process"
     /\ last.args = <<"help">>
     /\ \E i \in 1..Len(commands) : commands[i].callback = "help")
    => (/\ last.out = "Ok"
        /\ last.listed = [i \in 1..Len(commands) |-> commands[i].command])

\* C11 (amended): when the earliest registered command of keyword help is
\* the built-in one (the host registered no command of that keyword before
\* register_all), process with first token help returns Ok and lists the
\* keyword of every registered command once, in registration order, those
\* registered by the host before and after register_all included.
C11_BuiltinHelpListsRegistrations ==
    (/\ last.op = "process"
     /\ last.args # <<>>
     /\ Head(last.args) = "help"
     /\ \E i \in 1..Len(commands) :
           /\ commands[i].callback = "help"
           /\ \A j \in 1..(i - 1) : commands[j].command # "help")
    => (/\ last.out = "Ok"
        /\ last.res = "Ok"
        /\ Len(last.listed) = Len(commands)
        /\ \A i \in 1..Len(commands) : last.listed[i] = commands[i].command)

\* C11 witness: help listed a table that holds a host command registered
\* before the built-in commands and one registered after them.
C11_Witness ==
    /\ RanCommand(last, "help")
    /\ Len(commands) = Len(DefaultCommands) + 2
    /\ commands[1].callback = "custom"
    /\ commands[Len(commands)].callback = "custom"
    /\ commands[1].command # commands[Len(commands)].command
    /\ last.listed = [i \in 1..Len(commands) |-> commands[i].command]

\* C12: the link catalog only grows, and only at its end: every step leaves
\* the entries it had at their indices; an add_link that succeeds appends
\* one SocketCAN entry of the interface given, and no other call changes
\* the catalog.
C12_LinkCatalogAppendOnly ==
    [][LET n == Len(app.avail_links)
       IN  /\ Len(app'.avail_links) >= n
           /\ \A i \in 1..n : app'.avail_links[i] = app.avail_links[i]
           /\ IF RanCommand(last', "add_link") /\ last'.res = "Ok"
              THEN app'.avail_links =
                       Append(app.avail_links,
                              [typename |-> "SocketCAN", interface |-> last'.args[3]])
              ELSE app'.avail_links = app.avail_links]_vars

\* C12 witness: add_link appended an entry behind the discovered one, which
\* is still at index 0.
C12_Witness ==
    /\ RanCommand(last, "add_link")
    /\ last.res = "Ok"
    /\ Len(app.avail_links) = Len(DiscoveredLinks) + 1
    /\ app.avail_links[1] = DiscoveredLinks[1]
    /\ app.avail_links[Len(app.avail_links)].interface = "can1"

\* The steps of the download command, in the order of the source.
DownloadOrder ==
    <<"parse", "get_datalink", "find_platform", "downloader", "download",
      "identify", "new_rom", "save_meta", "save_image">>

\* The command line of the download call l has three or four arguments, the
\* first of them a decimal index.
DownloadWellFormed(l) ==
    /\ Len(l.args) \in {4, 5}
    /\ \E n \in 0..(MaxLinks + 1) : ToString(n) = l.args[2]

\* The earliest step of the download call l that fails (0-based position
\* in DownloadOrder; the length of DownloadOrder when none does).
FirstFailingStep(l) ==
    IF ~DownloadWellFormed(l) THEN 0
    ELSE IF l.index[1] >= Len(app.avail_links) \/ "create" \in l.faults THEN 1
    ELSE IF PlatformAbsent(l.args[3]) THEN 2
    ELSE IF "no_downloader" \in l.faults THEN 3
    ELSE IF "download" \in l.faults THEN 4
    ELSE IF NoModelMatches(l.args[3], l.data[1]) THEN 5
    ELSE IF "save_meta" \in l.faults THEN 7
    ELSE IF "save_image" \in l.faults THEN 8
    ELSE 9

\* C13: the download command executes the steps of DownloadOrder in that
\* order up to and including the earliest one that fails, and none after
\* it; what it reports is the failure of that step: a usage error for the
\* parse, InvalidDatalink or the wrapped create error for the link,
\* InvalidPlatform, DownloadUnsupported (the download is then not invoked),
\* the wrapped download error, UnknownModel; a failed save ends the call
\* at that save (by the panic of its unwrap), and with no failure all the
\* steps run and the result is Ok.
C13_DownloadStopsAtFirstFailure ==
    RanCommand(last, "download")
    => LET k == FirstFailingStep(last)
       IN  /\ last.steps = SubSeq(DownloadOrder, 1, IF k >= 9 THEN 9 ELSE k + 1)
           /\ last.res =
                 CASE k = 0 -> "Clap"
                   [] k = 1 -> IF last.index[1] >= Len(app.avail_links)
                               THEN "InvalidDatalink" ELSE "TuneUtils"
                   [] k = 2 -> "InvalidPlatform"
                   [] k = 3 -> "DownloadUnsupported"
                   [] k = 4 -> "TuneUtils"
                   [] k = 5 -> "UnknownModel"
                   [] k \in {7, 8} -> "panic"
                   [] OTHER -> "Ok"
           /\ k = 3 => ~ReachedStep(last, "download")
           /\ k < 4 => last.data = <<>>

\* C13 witness: the pairing had no downloader and the download would have
\* failed too; DownloadUnsupported was reported and no download invoked.
C13_Witness ==
    /\ RanCommand(last, "download")
    /\ last.faults = {"no_downloader", "download"}
    /\ last.res = "DownloadUnsupported"
    /\ last.steps = <<"parse", "get_datalink", "find_platform", "downloader">>
    /\ Len(app.roms) > 0

\* C14 (as claimed): when the pairing of link and platform exposes no
\* diagnostic interface, scan reports an error of its own, which is not the
\* InvalidDatalink of an index outside the link catalog, and neither
\* constructs a scanner nor reads trouble codes.
C14_ScanUnsupportedIsDistinct ==
    (/\ RanCommand(last, "scan")
     /\ ReachedStep(last, "uds")
     /\ "no_uds" \in last.faults)
    => (/\ last.res \notin {"Ok", "InvalidDatalink"}
        /\ ~ReachedStep(last, "scanner")
        /\ ~ReachedStep(last, "scan"))

\* C15: a scan, whatever its result, leaves the link catalog, the platform
\* catalog, the ROM catalog, the tune catalog, the command table and the
\* disk as they were, and executes no registration and no save.
C15_ScanIsReadOnly ==
    [][RanCommand(last', "scan")
       => (/\ app'.avail_links = app.avail_links
           /\ app'.definitions = app.definitions
           /\ app'.roms = app.roms
           /\ app'.tunes = app.tunes
           /\ disk' = disk
           /\ commands' = commands
           /\ \A i \in 1..Len(last'.steps) :
                 last'.steps[i] \in
                    {"parse", "get_datalink", "find_platform", "uds", "scanner", "scan"}
           /\ last'.res \in
                 {"Ok", "Clap", "InvalidDatalink", "InvalidPlatform", "TuneUtils"})]_vars

\* C15 witness: a scan on the link added at run time read the trouble codes
\* with a ROM and a tune in the catalogs.
C15_Witness ==
    /\ RanCommand(last, "scan")
    /\ last.res = "Ok"
    /\ ReachedStep(last, "scan")
    /\ last.index = <<1>>
    /\ Len(app.roms) > 0
    /\ Len(app.tunes) > 0
    /\ disk.rom_meta # <<>>

\* Step x of the call l was executed, and before step y if that was too.
StepBefore(l, x, y) ==
    \E i \in 1..Len(l.steps) :
        /\ l.steps[i] = x
        /\ \A j \in 1..Len(l.steps) : l.steps[j] = y => i < j

\* C16: a download that identified its image registers the ROM in the
\* manager before any write, then writes the metadata index, then the image,
\* and takes nothing back: when the metadata write fails the ROM is in the
\* manager and the disk is untouched; when the image write fails the ROM is
\* in the manager and in the metadata index on disk and its image was not
\* written (no image of its id is on disk unless an earlier ROM had that id).
C16_PersistIsNotTransactional ==
    [][(RanCommand(last', "download") /\ ReachedStep(last', "new_rom"))
       => LET n == Len(app.roms)
              new == app'.roms[n + 1]
              meta == [name |-> new.name, id |-> new.id,
                       platform |-> new.platform, model |-> new.model]
          IN  /\ Len(app'.roms) = n + 1
              /\ \A i \in 1..n : app'.roms[i] = app.roms[i]
              /\ new.id = SuppliedId(last')
              /\ StepBefore(last', "new_rom", "save_meta")
              /\ StepBefore(last', "save_meta", "save_image")
              /\ "save_meta" \in last'.faults
                    => (/\ last'.res = "panic"
                        /\ ~ReachedStep(last', "save_image")
                        /\ disk' = disk)
              /\ ("save_meta" \notin last'.faults /\ "save_image" \in last'.faults)
                    => (/\ last'.res = "panic"
                        /\ Len(disk'.rom_meta) = n + 1
                        /\ disk'.rom_meta[n + 1] = meta
                        /\ disk'.rom_images = disk.rom_images
                        /\ (\A i \in 1..n : app.roms[i].id # new.id)
                              => \A f \in disk'.rom_images : f.id # new.id)
              /\ (last'.faults \cap {"save_meta", "save_image"} = {})
                    => (/\ last'.res = "Ok"
                        /\ disk'.rom_meta[n + 1] = meta
                        /\ [id |-> new.id, data |-> new.data] \in disk'.rom_images)]_vars

\* C16 witness: the image write of the second ROM failed: the ROM is in the
\* manager and in the metadata index, and only the first ROM has an image.
C16_Witness ==
    /\ RanCommand(last, "download")
    /\ last.faults = {"save_image"}
    /\ last.res = "panic"
    /\ Len(app.roms) = 2
    /\ Len(disk.rom_meta) = 2
    /\ disk.rom_meta[2].id = app.roms[2].id
    /\ app.roms[1].id # app.roms[2].id
    /\ \A f \in disk.rom_images : f.id = app.roms[1].id
    /\ disk.rom_images # {}

\* C17: when the save of the tune index fails, create_tune returns the
\* wrapped failure, process prints it as an error and returns Ok, and the
\* tune, appended before the save, is in the tune catalog in memory while
\* the tune index on disk is as before.
C17_TuneSaveFailureSurfaces ==
    [][(/\ RanCommand(last', "create_tune")
        /\ ReachedStep(last', "save")
        /\ "tune_save" \in last'.faults)
       => (/\ last'.res = "TuneUtils"
           /\ last'.rendered = "Error"
           /\ last'.out = "Ok"
           /\ ~aborted'
           /\ StepBefore(last', "add_meta", "save")
           /\ Len(app'.tunes) = Len(app.tunes) + 1
           /\ \A i \in 1..Len(app.tunes) : app'.tunes[i] = app.tunes[i]
           /\ app'.tunes[Len(app'.tunes)].id = last'.args[3]
           /\ app'.tunes[Len(app'.tunes)].rom_id = last'.args[2]
           /\ disk' = disk)]_vars

\* C17 witness: the save of the tune index failed and was reported; the
\* tune is in memory and not in the index on disk.
C17_Witness ==
    /\ RanCommand(last, "create_tune")
    /\ last.faults = {"tune_save"}
    /\ last.res = "TuneUtils"
    /\ last.rendered = "Error"
    /\ Len(app.tunes) = 1
    /\ app.tunes[1].id = "t1"
    /\ disk.tune_index = <<>>

\* C18: a tune that create_tune appends has the name given on the command
\* line, and the tune id as its name when none is given; a ROM that download
\* registers has the name given, and the ROM id as its name when none is.
C18_NameDefaultsToId ==
    [][/\ (RanCommand(last', "create_tune") /\ ReachedStep(last', "add_meta"))
            => LET tune == app'.tunes[Len(app'.tunes)]
               IN  /\ Len(app'.tunes) = Len(app.tunes) + 1
                   /\ tune.id = last'.args[3]
                   /\ Len(last'.args) = 3 => tune.name = tune.id
                   /\ Len(last'.args) = 4 => tune.name = last'.args[4]
       /\ (RanCommand(last', "download") /\ ReachedStep(last', "new_rom"))
            => LET rom == app'.roms[Len(app'.roms)]
               IN  /\ Len(app'.roms) = Len(app.roms) + 1
                   /\ rom.id = last'.args[4]
                   /\ Len(last'.args) = 4 => rom.name = rom.id
                   /\ Len(last'.args) = 5 => rom.name = last'.args[5]]_vars

\* C18 witness: a tune created without a name has its id as name, on a
\* catalog with a ROM downloaded without a name and one downloaded with.
C18_Witness ==
    /\ RanCommand(last, "create_tune")
    /\ Len(last.args) = 3
    /\ app.tunes # <<>>
    /\ app.tunes[Len(app.tunes)].name = "t1"
    /\ \E i \in 1..Len(app.roms) : app.roms[i].name = app.roms[i].id
    /\ \E i \in 1..Len(app.roms) : app.roms[i].name = "N"

\* The library pipeline as a host runs it: create_platform_link, and on the
\* link it returns download.
LibraryPipeline(a, d, datalink, platform, id, name, env) ==
    LET link == App_create_platform_link(a, datalink, platform, env)
    IN  IF link.res # "Ok"
        THEN Outcome(link.res, a, d, link.steps, link.creates, link.opened,
                     link.released, <<>>)
        ELSE App_download(a, d, link.link[1], id, name, env)

\* The collaborator behaviours over which the two pipelines are compared.
PipelineEnvs ==
    {EnvOf(faults, data) :
        faults \in LibraryFaults \cup {{"create"}, {"create", "no_downloader"}},
        data \in Data}

\* C19: in every state of a session, for every datalink index (those of
\* the link catalog and the first one past it), platform id, ROM id, name
\* and collaborator behaviour, the download command and
\* the library pipeline (create_platform_link, then download) give the same
\* result and leave the same ROM catalog, the same application state and
\* the same disk; without a name the command agrees with the library called
\* with the id as name.
C19_CommandEqualsLibraryPipeline ==
    \A i \in 0..Len(app.avail_links), p \in PlatformTokens, r \in RomIds,
       env \in PipelineEnvs :
        /\ \A n \in Names :
              LET c == commands_download(app, disk, <<ToString(i), p, r, n>>, env)
                  l == LibraryPipeline(app, disk, i, p, r, n, env)
              IN  /\ c.res = l.res
                  /\ c.app = l.app
                  /\ c.disk = l.disk
                  /\ c.data = l.data
        /\ LET c == commands_download(app, disk, <<ToString(i), p, r>>, env)
               l == LibraryPipeline(app, disk, i, p, r, r, env)
           IN  /\ c.res = l.res
               /\ c.app = l.app
               /\ c.disk = l.disk

\* C19 witness: the library pipeline has just registered a ROM behind one
\* the command registered, and on the next input both would register the
\* same third record.
C19_Witness ==
    /\ last.op = "download"
    /\ last.res = "Ok"
    /\ Len(app.roms) = 2
    /\ app.roms[1].name = app.roms[1].id
    /\ app.roms[2].name = "N"
    /\ LET env == EnvOf({}, "d2")
           c == commands_download(app, disk, <<"0", "P1", "r2", "N">>, env)
           l == LibraryPipeline(app, disk, 0, "P1", "r2", "N", env)
       IN  /\ c.res = "Ok"
           /\ l.res = "Ok"
           /\ Len(c.app.roms) = 3
           /\ c.app.roms = l.app.roms
           /\ c.disk = l.disk

\* C20: no step removes or changes a ROM of the catalog; the catalog grows
\* only by one record at its end, in a download that identified its image;
\* and the rom id of every tune of the tune catalog resolves in the ROM
\* manager.
C20_NoDanglingRomReference ==
    [][LET n == Len(app.roms)
       IN  /\ Len(app'.roms) >= n
           /\ \A i \in 1..n : app'.roms[i] = app.roms[i]
           /\ app'.roms # app.roms
                 => (/\ Len(app'.roms) = n + 1
                     /\ RanCommand(last', "download")
                     /\ ReachedStep(last', "identify")
                     /\ ModelMatches(SuppliedPlatform(last'), app'.roms[n + 1].model,
                                     last'.data[1]))
           /\ \A t \in 1..Len(app'.tunes) :
                 /\ \E j \in 1..Len(app'.roms) : app'.roms[j].id = app'.tunes[t].rom_id
                 /\ search(app'.roms, app'.tunes[t].rom_id) # <<>>]_vars

\* C20 witness: after a tune was created on the second ROM of the catalog,
\* other commands ran and the tune's rom id still resolves.
C20_Witness ==
    /\ last.op = "process"
    /\ ~RanCommand(last, "create_tune")
    /\ Len(app.roms) = 2
    /\ app.roms[1].id # app.roms[2].id
    /\ app.tunes # <<>>
    /\ app.tunes[1].rom_id = app.roms[2].id
    /\ search(app.roms, app.tunes[1].rom_id) = << app.roms[2] >>

====
